---- MODULE Spec2Model ----
(***************************************************************************)
(* Verification model of the repository's scripts:                         *)
(*   - dirsize.py  : analyze_directories / get_directory_size / main       *)
(*   - temp.py     : copy_directory_with_exclusions and its helpers        *)
(*   - the base-32 line encoder with XOR parity (encode_for_print.py) and  *)
(*     the decoder the specification requires as its counterpart           *)
(* Each script is an independent program; each gets its own specification  *)
(* (SpecDirsize, SpecCopy, SpecExclude, SpecFec) over its own variables.   *)
(***************************************************************************)
EXTENDS Integers, Sequences, FiniteSets, TLC

VARIABLES
    \* dirsize.py
    tree,              \* the directory tree below the start path
    min_bytes,         \* main's --min-size, converted to bytes
    directory_sizes,   \* what analyze_directories returned (NotCalled before)
    printed,           \* the (path, size) rows main printed, in order
    dsPc               \* "start", "returned" (analyze_directories), "printed" (main)

dsVars == <<tree, min_bytes, directory_sizes, printed, dsPc>>

VARIABLES
    \* temp.py, one call of copy_directory_with_exclusions
    call,              \* the arguments and what the file system holds
    cpPc,              \* the statement the call has reached
    total_files,       \* len(files) once find has listed them
    copied,            \* files copied so far by the cp loop (its index i)
    outcome            \* "running", "True", "False", or the exception raised

cpVars == <<call, cpPc, total_files, copied, outcome>>

VARIABLES
    \* the line encoder and decoder
    raw,               \* the input bytes
    width,             \* characters per payload field
    group_size,        \* data lines per parity line
    encoded,           \* what encode returned: its lines, or the error raised
    transcript,        \* the lines as they reach the decoder
    tampered,          \* what the channel did: <<"garbage" or "deleted", kind, number>>
    decoded,           \* what decode returned: the bytes, or the error raised
    fecPc              \* "start", "encoded", "decoded"

fecVars == <<raw, width, group_size, encoded, transcript, tampered, decoded, fecPc>>

VARIABLES
    \* temp.py, one call of _process_exclude_list
    source_dir,        \* the source directory, a string (a sequence of characters)
    exclude_dirs,      \* the list of exclude strings passed in
    processed,         \* the list returned
    exPc               \* "start" or "returned"

exVars == <<source_dir, exclude_dirs, processed, exPc>>

vars == <<dsVars, cpVars, exVars, fecVars>>

\* The scripts share nothing: a step of one leaves the others' variables alone.
notDs == <<cpVars, exVars, fecVars>>
notCp == <<dsVars, exVars, fecVars>>
notEx == <<dsVars, cpVars, fecVars>>
notFec == <<dsVars, cpVars, exVars>>

RECURSIVE SeqSum(_)
SeqSum(s) == IF s = <<>> THEN 0 ELSE Head(s) + SeqSum(Tail(s))

RECURSIVE Flatten(_)
Flatten(ss) == IF ss = <<>> THEN <<>> ELSE Head(ss) \o Flatten(Tail(ss))

(***************************************************************************)
(*                              dirsize.py                                 *)
(***************************************************************************)

\* Bounds of the directory trees explored.
MaxDirs == 3
MaxFileBytes == 1

Dirs == 1..MaxDirs
StartDir == 1

\* A tree: directory 1 is the resolved start path; every other directory d has
\* a parent with a smaller number. hidden[d]: d's name starts with '.';
\* symlink[d]: the entry d is a symbolic link to a directory (the start path is
\* resolved, so it never is one); fileBytes[d]: the total st_size of the
\* regular, non-symlink files directly in d.
Trees ==
    { [parent |-> p, hidden |-> h, symlink |-> s, fileBytes |-> f] :
        p \in { q \in [Dirs -> 0..MaxDirs] :
                  /\ q[StartDir] = 0
                  /\ \A d \in Dirs \ {StartDir} : q[d] \in 1..(d - 1) },
        h \in [Dirs -> BOOLEAN],
        s \in { t \in [Dirs -> BOOLEAN] : ~t[StartDir] },
        f \in [Dirs -> 0..MaxFileBytes] }

\* os.walk's dirs list at root: the subdirectory entries, in listing order.
RECURSIVE ChildrenFrom(_, _, _)
ChildrenFrom(t, root, d) ==
    IF d > MaxDirs THEN <<>>
    ELSE (IF t.parent[d] = root THEN <<d>> ELSE <<>>) \o ChildrenFrom(t, root, d + 1)

Children(t, root) == ChildrenFrom(t, root, 1)

IsNotSymlink(t, d) == ~t.symlink[d]

\* get_directory_size: os.walk(directory, followlinks=False) visits every
\* subdirectory that is not a symlink, hidden ones included, and adds the
\* size of every non-symlink file.
RECURSIVE get_directory_size(_, _)
get_directory_size(t, directory) ==
    LET walked == SelectSeq(Children(t, directory), LAMBDA d : IsNotSymlink(t, d))
    IN  t.fileBytes[directory]
        + SeqSum([i \in 1..Len(walked) |-> get_directory_size(t, walked[i])])

\* dirs[:] = [d for d in dirs if not d.startswith('.')]
KeepMutant(t, d) == TRUE
Keep(t, d) == ~t.hidden[d]

\* (str(dir_path), size) is appended only if not dir_path.is_symlink()
ListableMutant(t, d) == TRUE
Listable(t, d) == IsNotSymlink(t, d)

\* The loop of analyze_directories over os.walk(start_path, followlinks=False),
\* top-down: at each root the kept, non-symlink subdirectories are appended,
\* then os.walk descends into each kept subdirectory that is not a symlink.
RECURSIVE WalkAppend(_, _)
WalkAppend(t, root) ==
    LET dirs   == SelectSeq(Children(t, root), LAMBDA d : Keep(t, d))
        listed == SelectSeq(dirs, LAMBDA d : Listable(t, d))
        walked == SelectSeq(dirs, LAMBDA d : IsNotSymlink(t, d))
    IN  [i \in 1..Len(listed) |->
            [path |-> listed[i], size |-> get_directory_size(t, listed[i])]]
        \o Flatten([i \in 1..Len(walked) |-> WalkAppend(t, walked[i])])

\* if not start_path.parts[-1].startswith('.') and not start_path.is_symlink()
StartEntry(t) ==
    IF ~t.hidden[StartDir] /\ ~t.symlink[StartDir]
    THEN << [path |-> StartDir, size |-> get_directory_size(t, StartDir)] >>
    ELSE <<>>

\* sorted(directory_sizes, key=lambda x: x[1], reverse=True): a stable sort,
\* equal sizes keep their order.
RECURSIVE InsertBySize(_, _)
InsertBySize(sorted, x) ==
    IF sorted = <<>> THEN <<x>>
    ELSE IF Head(sorted).size >= x.size
         THEN <<Head(sorted)>> \o InsertBySize(Tail(sorted), x)
         ELSE <<x>> \o sorted

RECURSIVE SortFrom(_, _)
SortFrom(acc, s) ==
    IF s = <<>> THEN acc ELSE SortFrom(InsertBySize(acc, Head(s)), Tail(s))

SortedLargestFirstMutant(s) == s
SortedLargestFirst(s) == SortFrom(<<>>, s)

Unsorted(t) == WalkAppend(t, StartDir) \o StartEntry(t)

analyze_directories(t) == SortedLargestFirst(Unsorted(t))

IdleDirsize ==
    /\ tree = <<>>
    /\ min_bytes = 0
    /\ directory_sizes = <<>>
    /\ printed = <<>>
    /\ dsPc = "idle"

InitDirsize ==
    /\ tree \in Trees
    /\ min_bytes \in 0..(MaxFileBytes + 1)
    /\ directory_sizes = <<>>
    /\ printed = <<>>
    /\ dsPc = "start"

\* A direct call of analyze_directories(start_path).
AnalyzeDirectories ==
    /\ dsPc = "start"
    /\ directory_sizes' = analyze_directories(tree)
    /\ dsPc' = "returned"
    /\ UNCHANGED <<tree, min_bytes, printed, notDs>>

\* main(): analyze, then print every row whose size is at least min_bytes.
Main ==
    /\ dsPc = "start"
    /\ directory_sizes' = analyze_directories(tree)
    /\ dsPc' = "printed"
    /\ printed' = SelectSeq(directory_sizes', LAMBDA row : ~(row.size < min_bytes))
    /\ UNCHANGED <<tree, min_bytes, notDs>>

NextDirsize == AnalyzeDirectories \/ Main

(***************************************************************************)
(*                 temp.py: copy_directory_with_exclusions                 *)
(***************************************************************************)

\* Bound on the number of files find lists.
MaxFiles == 2

IdleCopy ==
    /\ call = <<>>
    /\ cpPc = "idle"
    /\ total_files = 0
    /\ copied = 0
    /\ outcome = "idle"

InitCopy ==
    /\ call \in [source_exists : BOOLEAN, source_isdir : BOOLEAN,
                 use_rsync : BOOLEAN, verbose : BOOLEAN, rsync_found : BOOLEAN]
    /\ call.source_isdir => call.source_exists
    /\ cpPc = "validate"
    /\ total_files = 0
    /\ copied = 0
    /\ outcome = "running"

Return(value) ==
    /\ cpPc' = "returned"
    /\ outcome' = value

\* An exception no handler of the call catches leaves the function.
Raise(exception) ==
    /\ cpPc' = "raised"
    /\ outcome' = exception

Goto(label) ==
    /\ cpPc' = label
    /\ UNCHANGED outcome

\* lines 44-50: the source must exist and be a directory.
ValidateSource ==
    /\ cpPc = "validate"
    /\ IF ~call.source_exists \/ ~call.source_isdir
       THEN Return("False")
       ELSE Goto("makedirs")
    /\ UNCHANGED <<call, total_files, copied, notCp>>

\* line 53: os.makedirs(dest_dir, exist_ok=True), outside any try block.
MakeDestination ==
    /\ cpPc = "makedirs"
    /\ \/ Goto("dispatch")
       \/ Raise("OSError")
       \/ Raise("KeyboardInterrupt")
    /\ UNCHANGED <<call, total_files, copied, notCp>>

\* lines 56-64: the exclude list is processed, then rsync or cp is chosen.
Dispatch ==
    /\ cpPc = "dispatch"
    /\ IF call.use_rsync /\ call.rsync_found
       THEN Goto("rsync")
       ELSE IF call.verbose THEN Goto("cp_size") ELSE Goto("cp_find")
    /\ UNCHANGED <<call, total_files, copied, notCp>>

\* _copy_with_rsync, lines 126-136: subprocess.run(cmd, check=True) in a try
\* that handles CalledProcessError and KeyboardInterrupt.
CopyWithRsync ==
    /\ cpPc = "rsync"
    /\ \/ Return("True")
       \/ Return("False")       \* CalledProcessError, or KeyboardInterrupt
    /\ UNCHANGED <<call, total_files, copied, notCp>>

\* _copy_with_cp, lines 152-155: _get_directory_size swallows OSError; the
\* statement is outside the try block.
CpTotalSize ==
    /\ cpPc = "cp_size"
    /\ \/ Goto("cp_find")
       \/ Raise("KeyboardInterrupt")
    /\ UNCHANGED <<call, total_files, copied, notCp>>

\* _copy_with_cp, lines 182-187: find lists the files, inside the try block.
CpFind ==
    /\ cpPc = "cp_find"
    /\ \/ \E n \in 0..MaxFiles :
            /\ total_files' = n
            /\ Goto("cp_loop")
       \/ /\ Return("False")    \* CalledProcessError, or KeyboardInterrupt
          /\ UNCHANGED total_files
       \/ /\ Raise("FileNotFoundError")   \* no find executable
          /\ UNCHANGED total_files
    /\ UNCHANGED <<call, copied, notCp>>

\* _copy_with_cp, lines 190-211: one iteration of the loop over files.
CpFile ==
    /\ cpPc = "cp_loop"
    /\ copied < total_files
    /\ \/ /\ copied' = copied + 1
          /\ Goto("cp_loop")
       \/ /\ Raise("OSError")   \* os.makedirs(dest_file_dir), line 197
          /\ UNCHANGED copied
       \/ /\ Return("False")    \* cp fails (CalledProcessError), or KeyboardInterrupt
          /\ UNCHANGED copied
       \/ /\ call.verbose       \* os.path.getsize(file_path), line 204
          /\ Raise("OSError")
          /\ UNCHANGED copied
    /\ UNCHANGED <<call, total_files, notCp>>

\* _copy_with_cp, lines 213-214: every file was copied.
CpCompleted ==
    /\ cpPc = "cp_loop"
    /\ copied = total_files
    /\ Return("True")
    /\ UNCHANGED <<call, total_files, copied, notCp>>

NextCopy ==
    \/ ValidateSource
    \/ MakeDestination
    \/ Dispatch
    \/ CopyWithRsync
    \/ CpTotalSize
    \/ CpFind
    \/ CpFile
    \/ CpCompleted

\* C7: the call never ends with an exception escaping it: whenever it has
\* ended, it has returned True or False.
C7_ReturnsBoolean ==
    cpPc \in {"returned", "raised"} => outcome \in {"True", "False"}

(***************************************************************************)
(*                     temp.py: _process_exclude_list                      *)
(* Strings are sequences of one-character strings, so that strip, isabs,   *)
(* normpath, relpath and startswith are computed character by character as *)
(* the library does.                                                       *)
(***************************************************************************)

\* Bounds of the exclude lists explored.
MaxEntryLen == 4
MaxList == 2

Chars == {" ", "/", ".", "a"}

Strings == UNION { [1..n -> Chars] : n \in 0..MaxEntryLen }

Sources == { <<"/">>, <<"/", "a">> }

DotDot == <<".", ".">>

\* str.strip()
RECURSIVE LStrip(_)
LStrip(s) == IF s # <<>> /\ Head(s) = " " THEN LStrip(Tail(s)) ELSE s

RECURSIVE RStrip(_)
RStrip(s) ==
    IF s # <<>> /\ s[Len(s)] = " " THEN RStrip(SubSeq(s, 1, Len(s) - 1)) ELSE s

Strip(s) == RStrip(LStrip(s))

\* os.path.isabs
IsAbs(s) == s # <<>> /\ Head(s) = "/"

\* str.split('/'): the pieces between the slashes, empty pieces included.
RECURSIVE SplitFrom(_, _)
SplitFrom(s, piece) ==
    IF s = <<>> THEN <<piece>>
    ELSE IF Head(s) = "/"
         THEN <<piece>> \o SplitFrom(Tail(s), <<>>)
         ELSE SplitFrom(Tail(s), Append(piece, Head(s)))

Split(s) == SplitFrom(s, <<>>)

\* posixpath.normpath on an absolute path, as the list of its components:
\* '' and '.' are skipped, '..' removes the component before it and is
\* dropped at the root.
RECURSIVE NormFrom(_, _)
NormFrom(comps, new_comps) ==
    IF comps = <<>> THEN new_comps
    ELSE LET comp == Head(comps)
         IN  IF comp = <<>> \/ comp = <<".">>
             THEN NormFrom(Tail(comps), new_comps)
             ELSE IF comp # DotDot
                     \/ (new_comps # <<>> /\ new_comps[Len(new_comps)] = DotDot)
                  THEN NormFrom(Tail(comps), Append(new_comps, comp))
                  ELSE IF new_comps # <<>>
                       THEN NormFrom(Tail(comps),
                                     SubSeq(new_comps, 1, Len(new_comps) - 1))
                       ELSE NormFrom(Tail(comps), new_comps)

\* [x for x in abspath(p).split('/') if x], for an absolute p
AbsComponents(p) == NormFrom(Split(p), <<>>)

RECURSIVE CommonPrefixLen(_, _)
CommonPrefixLen(a, b) ==
    IF a = <<>> \/ b = <<>> \/ Head(a) # Head(b) THEN 0
    ELSE 1 + CommonPrefixLen(Tail(a), Tail(b))

\* '/'.join(parts)
RECURSIVE Join(_)
Join(parts) ==
    IF parts = <<>> THEN <<>>
    ELSE IF Len(parts) = 1 THEN Head(parts)
         ELSE Head(parts) \o <<"/">> \o Join(Tail(parts))

\* os.path.relpath(path, start), both absolute
relpath(path, start) ==
    LET start_list == AbsComponents(start)
        path_list  == AbsComponents(path)
        i          == CommonPrefixLen(start_list, path_list)
        rel_list   == [k \in 1..(Len(start_list) - i) |-> DotDot]
                      \o SubSeq(path_list, i + 1, Len(path_list))
    IN  IF rel_list = <<>> THEN <<".">> ELSE Join(rel_list)

\* rel_path.startswith('..')
StartsWithDotDot(s) == Len(s) >= 2 /\ s[1] = "." /\ s[2] = "."

\* One iteration of the loop of _process_exclude_list (lines 75-94): what the
\* entry adds to processed.
ProcessedEntry(entry, source) ==
    LET exclude == Strip(entry)
    IN  IF exclude = <<>> THEN <<>>
        ELSE IF IsAbs(exclude)
             THEN LET rel_path == relpath(exclude, source)
                  IN  IF ~StartsWithDotDot(rel_path) THEN <<rel_path>> ELSE <<>>
             ELSE <<exclude>>

_process_exclude_list(excludes, source) ==
    Flatten([k \in 1..Len(excludes) |-> ProcessedEntry(excludes[k], source)])

IdleExclude ==
    /\ source_dir = <<>>
    /\ exclude_dirs = <<>>
    /\ processed = <<>>
    /\ exPc = "idle"

InitExclude ==
    /\ source_dir \in Sources
    /\ exclude_dirs \in UNION { [1..n -> Strings] : n \in 0..MaxList }
    /\ processed = <<>>
    /\ exPc = "start"

ProcessExcludeList ==
    /\ exPc = "start"
    /\ processed' = _process_exclude_list(exclude_dirs, source_dir)
    /\ exPc' = "returned"
    /\ UNCHANGED <<source_dir, exclude_dirs, notEx>>

NextExclude == ProcessExcludeList

\* An absolute path lies inside the source directory when the source's
\* components are a prefix of its own.
Inside(path, source) ==
    LET start_list == AbsComponents(source)
        path_list  == AbsComponents(path)
    IN  /\ Len(start_list) <= Len(path_list)
        /\ SubSeq(path_list, 1, Len(start_list)) = start_list

RelativeInside(path, source) ==
    LET rest == SubSeq(AbsComponents(path), Len(AbsComponents(source)) + 1,
                       Len(AbsComponents(path)))
    IN  IF rest = <<>> THEN <<".">> ELSE Join(rest)

ExpectedEntry(entry, source) ==
    LET exclude == Strip(entry)
    IN  IF exclude = <<>> THEN <<>>
        ELSE IF ~IsAbs(exclude) THEN <<exclude>>
        ELSE IF Inside(exclude, source) THEN <<RelativeInside(exclude, source)>>
        ELSE <<>>

\* C10: the list returned holds, in input order, every non-blank relative
\* entry stripped and otherwise unchanged and, for every absolute entry, its
\* path relative to the source directory if and only if it lies inside the
\* source directory; blank entries and absolute paths outside are dropped.
C10_ProcessedAsStated ==
    exPc = "returned" =>
        processed =
            Flatten([k \in 1..Len(exclude_dirs) |->
                        ExpectedEntry(exclude_dirs[k], source_dir)])

(***************************************************************************)
(*      The base-32 line encoder with XOR parity, and its decoder          *)
(* Bytes are numbers 0..255; text is a sequence of character codes (ASCII).*)
(***************************************************************************)

\* Reference configuration of the encoder.
WIDTH == 60
GROUP_SIZE == 10

SpaceChar == 32

\* Bitwise exclusive or of two naturals: bit by bit for two 4-bit digits
\* (tabulated once), then digit by digit.
RECURSIVE XorBits(_, _)
XorBits(a, b) ==
    IF a = 0 THEN b
    ELSE IF b = 0 THEN a
    ELSE (((a % 2) + (b % 2)) % 2) + 2 * XorBits(a \div 2, b \div 2)

XorTable ==
    <<>> \o [a \in 1..16 |-> <<>> \o [b \in 1..16 |-> XorBits(a - 1, b - 1)]]

RECURSIVE Xor(_, _)
Xor(a, b) ==
    IF a < 16 /\ b < 16 THEN XorTable[a + 1][b + 1]
    ELSE XorTable[(a % 16) + 1][(b % 16) + 1] + 16 * Xor(a \div 16, b \div 16)

\* zlib.crc32: the reflected CRC-32 (polynomial 0xEDB88320), bit by bit. A
\* 32-bit value is kept as its two 16-bit halves <<high, low>>.
CrcPolyHigh == 60856
CrcPolyLow == 33568
Half == 65536
HalfMask == 65535

CrcShiftRight(crc) == << crc[1] \div 2, (crc[2] \div 2) + (crc[1] % 2) * (Half \div 2) >>

\* One bit: crc = (crc >> 1) ^ poly if the low bit is set, else crc >> 1.
CrcBit(crc) ==
    LET shifted == CrcShiftRight(crc)
    IN  IF crc[2] % 2 = 1
        THEN << Xor(shifted[1], CrcPolyHigh), Xor(shifted[2], CrcPolyLow) >>
        ELSE shifted

\* zlib's table: entry n is n taken through the eight bit steps. (The
\* concatenation makes the table a tuple, computed once.)
CrcTable ==
    <<>> \o [n \in 1..256 |->
                CrcBit(CrcBit(CrcBit(CrcBit(CrcBit(CrcBit(CrcBit(CrcBit(
                    << 0, n - 1 >> ))))))))]

\* One byte, as zlib does it: crc = table[(crc ^ byte) & 0xFF] ^ (crc >> 8).
CrcByte(crc, byte) ==
    LET entry == CrcTable[Xor(crc[2] % 256, byte) + 1]
    IN  << Xor(entry[1], crc[1] \div 256),
           Xor(entry[2], (crc[2] \div 256) + (crc[1] % 256) * 256) >>

IsWord32(crc) == crc[1] \in 0..HalfMask /\ crc[2] \in 0..HalfMask

\* The loop over the bytes text[lo..hi], split in halves; testing crc first
\* makes TLC evaluate it before descending, which keeps its stack shallow.
RECURSIVE CrcRange(_, _, _, _)
CrcRange(crc, text, lo, hi) ==
    IF ~IsWord32(crc) \/ lo > hi THEN crc
    ELSE IF lo = hi THEN CrcByte(crc, text[lo])
    ELSE LET mid == (lo + hi) \div 2
         IN  CrcRange(CrcRange(crc, text, lo, mid), text, mid + 1, hi)

Crc32(text) ==
    LET crc == CrcRange(<< HalfMask, HalfMask >>, text, 1, Len(text))
    IN  << Xor(crc[1], HalfMask), Xor(crc[2], HalfMask) >>

\* The RFC 4648 base-32 alphabet, A-Z then 2-7, as character codes.
B32Char(v) == IF v < 26 THEN 65 + v ELSE 50 + (v - 26)

IsB32Char(c) == (c >= 65 /\ c <= 90) \/ (c >= 50 /\ c <= 55)

B32Value(c) == IF c >= 65 THEN c - 65 ELSE c - 50 + 26

Pow2(n) == 2 ^ n

ByteAt(bytes, i) == IF i <= Len(bytes) THEN bytes[i] ELSE 0

\* base64.b32encode(bytes) with its '=' padding stripped: character k (from
\* 0) holds bits 5k..5k+4 of the byte stream, zero bits after its end.
B32EncodeStripped(bytes) ==
    LET nchars == (8 * Len(bytes) + 4) \div 5
    IN  [k \in 1..nchars |->
            LET bit  == 5 * (k - 1)
                i    == bit \div 8
                pair == ByteAt(bytes, i + 1) * 256 + ByteAt(bytes, i + 2)
            IN  B32Char((pair \div Pow2(11 - (bit % 8))) % 32)]

\* The number of characters of a text that is a valid base-32 body once '='
\* padding is restored to a multiple of 8: 0, 2, 4, 5 or 7 modulo 8
\* (base64.b32decode raises binascii.Error "Incorrect padding" otherwise).
B32LengthValid(n) == (n % 8) \in {0, 2, 4, 5, 7}

B32Decodable(text) ==
    /\ B32LengthValid(Len(text))
    /\ \A k \in 1..Len(text) : IsB32Char(text[k])

CharValueAt(text, k) == IF k <= Len(text) THEN B32Value(text[k]) ELSE 0

\* base64.b32decode(text + '=' * (-len(text) % 8)): byte j (from 0) is bits
\* 8j..8j+7 of the 5-bit stream; the bits left over after the last whole
\* byte are dropped, whatever they are.
B32DecodePadded(text) ==
    LET nbytes == (5 * Len(text)) \div 8
    IN  [j \in 1..nbytes |->
            LET bit    == 8 * (j - 1)
                q      == bit \div 5
                triple == CharValueAt(text, q + 1) * 1024
                          + CharValueAt(text, q + 2) * 32
                          + CharValueAt(text, q + 3)
            IN  (triple \div Pow2(7 - (bit % 5))) % 256]

Max(a, b) == IF a >= b THEN a ELSE b

\* XOR of two byte strings, the shorter padded with trailing zero bytes.
XorBytes(a, b) ==
    [i \in 1..Max(Len(a), Len(b)) |-> Xor(ByteAt(a, i), ByteAt(b, i))]

RECURSIVE XorAll(_)
XorAll(byteStrings) ==
    IF byteStrings = <<>> THEN <<>>
    ELSE XorBytes(Head(byteStrings), XorAll(Tail(byteStrings)))

(***************************************************************************)
(*                              The encoder                                *)
(***************************************************************************)

CeilDiv(a, b) == (a + b - 1) \div b

Min(a, b) == IF a <= b THEN a ELSE b

\* chunk.ljust(width)
LJust(text, w) == text \o [k \in 1..(w - Len(text)) |-> SpaceChar]

\* The k-th chunk (from 1) of the base-32 text: w characters, the last one
\* possibly shorter.
Chunk(b32, w, k) == SubSeq(b32, (k - 1) * w + 1, Min(k * w, Len(b32)))

NumChunks(b32, w) == CeilDiv(Len(b32), w)

\* The global chunk numbers of group g (from 0).
GroupChunkNumbers(nchunks, gs, g) == (g * gs + 1)..Min((g + 1) * gs, nchunks)

DataLine(index, chunk, w) ==
    [kind |-> "data", number |-> index,
     payload |-> LJust(chunk, w), checksum |-> Crc32(chunk)]

\* The parity text of a group: every chunk decoded to bytes ('=' padding
\* restored), the byte strings xor-ed, the result encoded again, '=' stripped.
ParityText(chunks) ==
    B32EncodeStripped(XorAll([i \in 1..Len(chunks) |-> B32DecodePadded(chunks[i])]))

ParityLine(g, chunks, w) ==
    LET parity == ParityText(chunks)
    IN  [kind |-> "parity", number |-> g,
         payload |-> LJust(parity, w), checksum |-> Crc32(parity)]

\* The data lines of group g (from 0), in chunk order.
GroupDataLines(b32, w, gs, g) ==
    LET first == g * gs + 1
        last  == Min((g + 1) * gs, NumChunks(b32, w))
    IN  [i \in 1..(last - first + 1) |->
            DataLine(first + i - 1, Chunk(b32, w, first + i - 1), w)]

\* A group's lines: its data lines, then its parity line.
GroupLines(b32, w, gs, g) ==
    LET first  == g * gs + 1
        last   == Min((g + 1) * gs, NumChunks(b32, w))
        chunks == [i \in 1..(last - first + 1) |-> Chunk(b32, w, first + i - 1)]
    IN  GroupDataLines(b32, w, gs, g) \o <<ParityLine(g, chunks, w)>>

\* encode(raw_bytes, width, group_size): the lines emitted. A chunk whose
\* length cannot be padded to a valid base-32 body makes b32decode raise when
\* the parity of its group is computed: the groups before it and the data
\* lines of its own group are out by then, and nothing follows.
encode(bytes, w, gs) ==
    LET b32     == B32EncodeStripped(bytes)
        nchunks == NumChunks(b32, w)
        ngroups == CeilDiv(nchunks, gs)
        failing == { g \in 0..(ngroups - 1) :
                        \E k \in GroupChunkNumbers(nchunks, gs, g) :
                            ~B32LengthValid(Len(Chunk(b32, w, k))) }
    IN  IF failing = {}
        THEN [error |-> "none",
              lines |-> Flatten([g \in 1..ngroups |-> GroupLines(b32, w, gs, g - 1)])]
        ELSE LET g0 == CHOOSE g \in failing : \A h \in failing : g <= h
             IN  [error |-> "binascii.Error",
                  lines |-> Flatten([g \in 1..g0 |-> GroupLines(b32, w, gs, g - 1)])
                            \o GroupDataLines(b32, w, gs, g0)]

(***************************************************************************)
(*                              The decoder                                *)
(***************************************************************************)

\* payload.rstrip(' ')
RECURSIVE Trim(_)
Trim(text) ==
    IF text # <<>> /\ text[Len(text)] = SpaceChar
    THEN Trim(SubSeq(text, 1, Len(text) - 1))
    ELSE text

\* A line is good when the CRC-32 of its payload, pad spaces trimmed, is the
\* checksum it declares.
LineGood(line) == Crc32(Trim(line.payload)) = line.checksum

GroupOf(line, gs) ==
    IF line.kind = "parity" THEN line.number ELSE (line.number - 1) \div gs

SetMax(S) == CHOOSE x \in S : \A y \in S : y <= x

\* Body(value), with value evaluated once.
Bind(value, Body(_)) == CHOOSE result \in { Body(x) : x \in {value} } : TRUE

\* The positions in lines of the lines with this tag.
Positions(lines, kind, number) ==
    { i \in 1..Len(lines) : lines[i].kind = kind /\ lines[i].number = number }

\* Step d for a group with one bad data line: its text is the parity bytes
\* xor-ed with the bytes of the good data lines, encoded again; then step c.
\* When no line is bad the lines' own text is taken (step c).
GroupText(lines, first, last, bad, residual) ==
    Flatten([k \in 1..(last - first + 1) |->
                IF (first + k - 1) \in bad
                THEN B32EncodeStripped(residual)
                ELSE Trim(lines[CHOOSE i \in Positions(lines, "data", first + k - 1) :
                                    TRUE].payload)])

\* XOR of the byte strings a function gives at the positions of S.
RECURSIVE XorOver(_, _)
XorOver(bytesAt, S) ==
    IF S = {} THEN <<>>
    ELSE LET i == CHOOSE x \in S : TRUE
         IN  XorBytes(bytesAt[i], XorOver(bytesAt, S \ {i}))

\* Steps a-e for group g; ok[i] tells whether lines[i] passed its checksum.
\* The data lines expected are those of the group's range; in the last
\* group, those up to the highest data-line number observed (a group has at
\* least one data line). An expected line that is absent, or present only
\* with a failed checksum, is bad.
DecodeGroup(lines, ok, w, gs, g, isLast) ==
    LET parityAt   == Positions(lines, "parity", g)
        first      == g * gs + 1
        seen       == { lines[i].number : i \in { j \in 1..Len(lines) :
                            lines[j].kind = "data" /\ GroupOf(lines[j], gs) = g } }
        highest    == IF isLast THEN SetMax(seen \cup {first}) ELSE (g + 1) * gs
        goodAt     == { i \in 1..Len(lines) :
                            /\ lines[i].kind = "data"
                            /\ GroupOf(lines[i], gs) = g
                            /\ ok[i] }
        bad        == { index \in first..highest :
                            \A i \in Positions(lines, "data", index) : ~ok[i] }
        parityGood == \E i \in parityAt : ok[i]
    IN  IF parityAt = {} THEN [error |-> "FormatError"]
        ELSE IF bad = {}
        THEN [error |-> "none", text |-> GroupText(lines, first, highest, {}, <<>>)]
        ELSE IF Cardinality(bad) > 1 \/ ~parityGood
        THEN [error |-> "CorruptionError", group |-> g]
        ELSE Bind(<<>> \o XorOver([i \in parityAt \cup goodAt |->
                                      B32DecodePadded(Trim(lines[i].payload))],
                                  parityAt \cup goodAt),
                  LAMBDA residual :
                    [error |-> "none",
                     text |-> GroupText(lines, first, highest, bad, residual)])

\* The final assembly: the groups' text in stream order, padded and decoded.
Assemble(groups) ==
    LET failed == { g \in 1..Len(groups) : groups[g].error # "none" }
    IN  IF failed # {}
        THEN groups[CHOOSE g \in failed : \A h \in failed : g <= h]
        ELSE Bind(Flatten([g \in 1..Len(groups) |-> groups[g].text]),
                  LAMBDA text :
                    IF ~B32Decodable(text) THEN [error |-> "FormatError"]
                    ELSE [error |-> "none", bytes |-> <<>> \o B32DecodePadded(text)])

\* decode(lines, width, group_size): the bytes, or the first error. An empty
\* transcript is an InputError.
decode(lines, w, gs) ==
    IF lines = <<>> THEN [error |-> "InputError"]
    ELSE
    Bind(<<>> \o [i \in 1..Len(lines) |-> LineGood(lines[i])],
         LAMBDA ok :
            LET ngroups == 1 + SetMax({ GroupOf(lines[i], gs) : i \in 1..Len(lines) })
            IN  Bind(<<>> \o [g \in 1..ngroups |->
                                 DecodeGroup(lines, ok, w, gs, g - 1, g = ngroups)],
                     LAMBDA groups : Assemble(groups)))

\* Bounds of the inputs explored: every length up to MaxLen, with each of
\* the byte patterns, under each width and group size.
MaxLen == 6

\* Lengths that matter under the reference width: a single full line (37
\* bytes are 60 characters), and the first lengths that need a second line.
ReferenceLengths == {11, 37, 38, 40}

Widths == {4, 8, WIDTH}

GroupSizes == {1, 2, GROUP_SIZE}

\* Byte i (from 1) of a pattern: first + (i - 1) * step, modulo 256.
Pattern(n, first, step) == [i \in 1..n |-> (first + (i - 1) * step) % 256]

HelloWorld == <<72, 69, 76, 76, 79, 32, 87, 79, 82, 76, 68>>

Inputs(w) ==
    { Pattern(n, first, step) :
        n \in (0..MaxLen) \cup (IF w = WIDTH THEN ReferenceLengths ELSE {}),
        first \in {0, 255}, step \in {0, 1} }
    \cup (IF w = WIDTH THEN {HelloWorld} ELSE {})

NoResult == [error |-> "pending"]

IdleFec ==
    /\ raw = <<>>
    /\ width = 0
    /\ group_size = 0
    /\ encoded = NoResult
    /\ transcript = <<>>
    /\ tampered = {}
    /\ decoded = NoResult
    /\ fecPc = "idle"

InitFec ==
    /\ width \in Widths
    /\ group_size \in GroupSizes
    /\ raw \in Inputs(width)
    /\ encoded = NoResult
    /\ transcript = <<>>
    /\ tampered = {}
    /\ decoded = NoResult
    /\ fecPc = "start"

\* The encoder runs; what it returns is what is sent.
Encode ==
    /\ fecPc = "start"
    /\ encoded' = encode(raw, width, group_size)
    /\ transcript' = encoded'.lines
    /\ fecPc' = IF encoded'.error = "none" THEN "encoded" ELSE "raised"
    /\ UNCHANGED <<raw, width, group_size, tampered, decoded, notFec>>

\* Bound on the number of lines the channel damages.
MaxTamper == 2

Untouched(line) ==
    \A t \in tampered : ~(t[2] = line.kind /\ t[3] = line.number)

\* The payload with the character at pos replaced by the next one of the
\* alphabet.
Garbage(payload, pos) ==
    [payload EXCEPT ![pos] = B32Char((B32Value(payload[pos]) + 1) % 32)]

\* The channel replaces the payload of one line by garbage that no longer
\* matches the line's checksum.
CorruptPayload ==
    /\ fecPc = "encoded"
    /\ Cardinality(tampered) < MaxTamper
    /\ \E i \in 1..Len(transcript) :
         \E pos \in {1, Len(Trim(transcript[i].payload))} :
            LET line    == transcript[i]
                garbage == Garbage(line.payload, pos)
            IN  /\ Untouched(line)
                /\ Crc32(Trim(garbage)) # line.checksum
                /\ transcript' = [transcript EXCEPT ![i].payload = garbage]
                /\ tampered' = tampered \cup {<<"garbage", line.kind, line.number>>}
    /\ UNCHANGED <<raw, width, group_size, encoded, decoded, fecPc, notFec>>

\* The channel loses one data line.
DeleteDataLine ==
    /\ fecPc = "encoded"
    /\ Cardinality(tampered) < MaxTamper
    /\ \E i \in 1..Len(transcript) :
            LET line == transcript[i]
            IN  /\ line.kind = "data"
                /\ Untouched(line)
                /\ transcript' = SubSeq(transcript, 1, i - 1)
                                   \o SubSeq(transcript, i + 1, Len(transcript))
                /\ tampered' = tampered \cup {<<"deleted", line.kind, line.number>>}
    /\ UNCHANGED <<raw, width, group_size, encoded, decoded, fecPc, notFec>>

\* The decoder runs on what arrived.
Decode ==
    /\ fecPc = "encoded"
    /\ decoded' = decode(transcript, width, group_size)
    /\ fecPc' = "decoded"
    /\ UNCHANGED <<raw, width, group_size, encoded, transcript, tampered, notFec>>

NextFec == Encode \/ CorruptPayload \/ DeleteDataLine \/ Decode

InitSpecFec == InitFec /\ IdleDirsize /\ IdleCopy /\ IdleExclude

SpecFec == InitSpecFec /\ [][NextFec]_vars

Returned(bytes) == [error |-> "none", bytes |-> bytes]

\* The lines the channel damaged, by what it did to them.
Damaged(how, kind) == { t \in tampered : t[1] = how /\ t[2] = kind }

\* C1: decode(encode(b, width, group_size), width, group_size) returns
\* exactly b, for every b, the empty one included: the encoder completes and
\* the decoder, given its lines untouched, returns b.
C1_RoundTrip ==
    /\ fecPc # "start" => encoded.error = "none"
    /\ (fecPc = "decoded" /\ tampered = {}) => decoded = Returned(raw)

\* C2: when exactly one data line's payload was replaced by garbage that
\* fails its checksum and every other line is intact, decode returns the
\* original bytes.
C2_SingleLineRecovery ==
    (/\ fecPc = "decoded"
     /\ Cardinality(tampered) = 1
     /\ Damaged("garbage", "data") = tampered)
    => decoded = Returned(raw)

\* C3: when exactly one data line was deleted and every other line is
\* intact, decode returns the original bytes.
C3_MissingLineRecovery ==
    (/\ fecPc = "decoded"
     /\ Cardinality(tampered) = 1
     /\ Damaged("deleted", "data") = tampered)
    => decoded = Returned(raw)

\* The part of C3 about b"HELLO WORLD": its transcript reduced to the parity
\* line decodes to b"HELLO WORLD".
HelloWorldFromParityAlone ==
    (/\ fecPc = "decoded"
     /\ raw = HelloWorld
     /\ tampered = {<<"deleted", "data", 1>>})
    => decoded = Returned(HelloWorld)

\* The groups with two or more bad data lines, or with a bad data line and a
\* bad parity line.
DoublyBad ==
    { g \in 0..Len(encoded.lines) :
        LET data   == { t \in tampered : t[2] = "data" /\ (t[3] - 1) \div group_size = g }
            parity == { t \in tampered : t[2] = "parity" /\ t[3] = g }
        IN  \/ Cardinality(data) >= 2
            \/ (data # {} /\ parity # {}) }

\* C4: when a group has two or more bad data lines, or a bad data line and a
\* bad parity line, decode fails with CorruptionError naming that group and
\* returns no bytes.
C4_DoubleCorruptionRejected ==
    (fecPc = "decoded" /\ DoublyBad # {})
    => /\ decoded.error = "CorruptionError"
       /\ decoded.group \in DoublyBad

\* The same, when every damaged line is a line whose payload was replaced.
DoubleGarbageRejected ==
    (fecPc = "decoded" /\ DoublyBad # {} /\ \A t \in tampered : t[1] = "garbage")
    => /\ decoded.error = "CorruptionError"
       /\ decoded.group \in DoublyBad

\* The decoded bytes of the lines of a kind in group g of the encoder's output.
BytesOfGroup(kind, g) ==
    LET at == { i \in 1..Len(encoded.lines) :
                    /\ encoded.lines[i].kind = kind
                    /\ GroupOf(encoded.lines[i], group_size) = g }
    IN  XorOver([i \in at |-> B32DecodePadded(Trim(encoded.lines[i].payload))], at)

\* C5: for every group the encoder emits, each data chunk can be decoded
\* back to bytes once '=' padding is restored, and the bytes of the parity
\* payload are the XOR of the bytes of the group's data chunks, the shorter
\* ones padded with zero bytes.
C5_ParityInvariant ==
    fecPc # "start" =>
        \A i \in 1..Len(encoded.lines) :
            LET line == encoded.lines[i]
                g    == GroupOf(line, group_size)
            IN  /\ B32Decodable(Trim(line.payload))
                /\ <<>> \o BytesOfGroup("parity", g) = <<>> \o BytesOfGroup("data", g)
                /\ \E j \in 1..Len(encoded.lines) :
                      encoded.lines[j].kind = "parity" /\ encoded.lines[j].number = g

\* C6: the encoder's output is, group after group, the group's data lines in
\* ascending global chunk number followed at once by the group's parity
\* line; every group but the last has group_size data lines, and there are
\* ceil(chunks / group_size) parity lines.
C6_StreamStructure ==
    fecPc # "start" =>
        LET lines   == encoded.lines
            nchunks == NumChunks(B32EncodeStripped(raw), width)
            ngroups == CeilDiv(nchunks, group_size)
        IN  /\ Len(lines) = nchunks + ngroups
            /\ \A k \in 1..nchunks :
                  LET line == lines[k + (k - 1) \div group_size]
                  IN  line.kind = "data" /\ line.number = k
            /\ \A g \in 0..(ngroups - 1) :
                  LET line == lines[Min((g + 1) * group_size, nchunks) + g + 1]
                  IN  line.kind = "parity" /\ line.number = g

InitSpecDirsize == InitDirsize /\ IdleCopy /\ IdleExclude /\ IdleFec

SpecDirsize == InitSpecDirsize /\ [][NextDirsize]_vars

InitSpecCopy == InitCopy /\ IdleDirsize /\ IdleExclude /\ IdleFec

SpecCopy == InitSpecCopy /\ [][NextCopy]_vars

LargestFirst(rows) ==
    \A i \in 1..(Len(rows) - 1) : rows[i].size >= rows[i + 1].size

\* C8: what analyze_directories returns, and so what main prints, is ordered
\* largest first: each entry's size is >= the size of the entry after it.
C8_LargestFirst ==
    /\ dsPc \in {"returned", "printed"} => LargestFirst(directory_sizes)
    /\ dsPc = "printed" => LargestFirst(printed)

\* A call returned at least three rows which the walk had collected in an
\* order that was not largest first.
C8_Witness ==
    /\ dsPc = "returned"
    /\ Len(directory_sizes) >= 3
    /\ ~LargestFirst(Unsorted(tree))
    /\ directory_sizes[1].size > directory_sizes[Len(directory_sizes)].size

RECURSIVE InsideHiddenFrom(_, _)
\* Some proper ancestor of d, up to and including the start directory, is hidden.
InsideHiddenFrom(t, d) ==
    IF d = StartDir THEN FALSE
    ELSE t.hidden[t.parent[d]] \/ InsideHiddenFrom(t, t.parent[d])

RECURSIVE ThroughHiddenOrLink(_, _)
\* Some proper ancestor of d strictly below the start directory is hidden or
\* is a symlink.
ThroughHiddenOrLink(t, d) ==
    IF d = StartDir \/ t.parent[d] = StartDir THEN FALSE
    ELSE \/ t.hidden[t.parent[d]]
         \/ t.symlink[t.parent[d]]
         \/ ThroughHiddenOrLink(t, t.parent[d])

TimesListed(rows, d) == Cardinality({ i \in 1..Len(rows) : rows[i].path = d })

InitSpecExclude == InitExclude /\ IdleDirsize /\ IdleCopy /\ IdleFec

SpecExclude == InitSpecExclude /\ [][NextExclude]_vars

====
